---- MODULE Spec2Model ----
(***************************************************************************)
(* GDBCtrl (src/gdb_ctrl.py): an asynchronous controller of one gdb child  *)
(* attached to a PTY.  The model holds the controller's fields (_cnt,      *)
(* _gdb, _timeout), the PTY of the child in the slot (bytes written and not*)
(* yet read by the child, lines emitted and not yet read by the            *)
(* controller), the set of live child processes, and the position of the   *)
(* one coroutine in flight (the controller is used by one caller at a      *)
(* time).  Strings are sequences of chunks; a newline is a chunk of its own.*)
(***************************************************************************)
EXTENDS Integers, Sequences, FiniteSets, TLC

VARIABLES
    cnt,          \* self._cnt: None or <<n>>
    gdb,          \* self._gdb: None or <<pid>> of the pexpect child
    timeout,      \* self._timeout: None or <<seconds>>
    token_start,  \* the constructor's token_start argument (never changes)
    alive,        \* pids of the child processes that are alive
    nproc,        \* number of processes started so far
    wire,         \* what was written to the PTY of the child in the slot, unread by it
    out,          \* lines the child in the slot emitted, unread by the controller
    booted,       \* the live child in the slot has printed its first prompt
    hup,          \* the slave side of the PTY in the slot is closed: writes to it fail
    pc,           \* position of the coroutine in flight ("idle": none)
    ret,          \* how the last finished call ended
    steps,        \* steps of the shutdown call in flight or just ended (empty after any other call)
    issued,       \* tokens the controller chose so far, in order
    nsend,        \* number of send calls made by the user
    nspawnok,     \* number of spawn calls that returned normally
    nclosed,      \* number of shutdown calls that force-closed a child
    last,         \* SyncGDBCtrl.last: None (not set yet) or <<batch>>
    tmp,          \* the list the recv_all() in flight collects
    call,         \* the recv_all() or execute() call in flight
    bind,         \* the extend_interface_with_gdb_commands() call: its position and locals
    bound,        \* the setattr calls it made so far, in order: <<pyname, gdbname>>
    parked,       \* the coroutines of other tasks that are suspended at an await
    printed,      \* the records the last pretty printing of recv_all printed
    last_out_of_band  \* GDB.last_out_of_band (src/gdb.py)

\* The state of the binder of gdb commands.
bvars == <<bind, bound>>

\* The state of the synchronous layer (SyncGDBCtrl), of the other tasks and
\* of the first controller variant (GDB).
svars == <<last, tmp, call, bvars, parked, printed, last_out_of_band>>

vars == <<cnt, gdb, timeout, token_start, alive, nproc, wire, out, booted, hup,
          pc, ret, steps, issued, nsend, nspawnok, nclosed, svars>>

\* Python's None, and a present value, as sequences of length 0 and 1.
None == <<>>
Some(x) == <<x>>

-----------------------------------------------------------------------------
\* Bounds of the model.
MaxProc == 2
MaxSend == 1
MaxOut == 2
MaxBatch == 2
MaxCand == 2
MaxTasks == 2
MaxLines == 4

\* token_start=87362, the default of GDBCtrl.__init__.
DefaultTokenStart == 87362

NL == "\n"

\* str(n) of a non-negative int: its decimal digits.
Digits == <<"0", "1", "2", "3", "4", "5", "6", "7", "8", "9">>
RECURSIVE Str(_)
Str(n) == IF n < 10 THEN <<Digits[n + 1]>>
          ELSE Str(n \div 10) \o <<Digits[(n % 10) + 1]>>

\* The commands of the model.
CmdSetConfirmOff == <<"set confirm off">>
CmdGdbExit == <<"-gdb-exit">>
CmdListFeatures == <<"-list-features">>
Cmds == {CmdListFeatures, <<"-exec-run", NL>>}
Tokens == {None, Some(7)}
TokenStarts == {None, Some(DefaultTokenStart)}
Timeouts == {None, Some(1)}

\* What is written to the PTY: data, the interrupt character, the EOF character.
Data(s) == [kind |-> "data", data |-> s]
Intr == [kind |-> "intr", data |-> <<>>]
Eof == [kind |-> "eof", data |-> <<>>]

\* The child's output, line by line (the terminator \r?\n is not kept): an
\* optional token, then the marker of the MI record and its text.
PromptText == <<"(gdb) ">>
AsyncText == <<"=", "thread-group-added">>
Payload(c) == IF c = CmdListFeatures THEN <<",features=[]">> ELSE <<>>
ResultText(tok, class, c) == tok \o <<"^", class>> \o Payload(c)

IsDigit(ch) == \E i \in 1..Len(Digits) : Digits[i] = ch

\* The number of leading digit chunks of s.
RECURSIVE DigitPrefix(_)
DigitPrefix(s) == IF s # <<>> /\ IsDigit(Head(s)) THEN 1 + DigitPrefix(Tail(s)) ELSE 0

\* Output.parse_line of gdb_mi on line + '\n': the typed record of one line.
Record(type, token, class, payload) ==
    [type |-> type, token |-> token, class |-> class, payload |-> payload]
ParseLine(line) ==
    LET text == SubSeq(line, 1, Len(line) - 1)
        k == DigitPrefix(text)
        tok == SubSeq(text, 1, k)
        body == SubSeq(text, k + 1, Len(text))
    IN  IF text = PromptText THEN Record("prompt", <<>>, "", <<>>)
        ELSE IF body # <<>> /\ Head(body) = "^" /\ Len(body) >= 2
             THEN Record("result", tok, body[2], SubSeq(body, 3, Len(body)))
        ELSE IF body # <<>> /\ Head(body) = "~"
             THEN Record("stream", tok, "Console", Tail(body))
        ELSE IF body # <<>> /\ Head(body) = "="
             THEN Record("async", tok, "Notify", Tail(body))
        ELSE Record("invalid", <<>>, "", text)

\* How a call ended: "ok" or the exception raised, and the value returned.
Ret(op, outcome, value) == [op |-> op, outcome |-> outcome, value |-> value]

\* No recv_all() or execute() is in flight.  A call in flight is: the
\* operation, its arguments timeout (t), pretty_print (pp) and ret (r), the command of an
\* execute, and whether nothing was unread or unanswered when the execute
\* started (q).
NoCall == [op |-> "none", t |-> None, pp |-> FALSE, r |-> FALSE, cmd |-> <<>>,
           q |-> FALSE]

\* extend_interface_with_gdb_commands() was not called.  A call of it is: the
\* statement it is at (stage), the candidates the generators did not reach yet
\* (cands) and the index enumerate gives to the next of them (idx), the
\* candidate the loop is at (name), and the list reserved.
NoBind == [stage |-> "none", cands |-> <<>>, idx |-> 0, name |-> <<>>,
           reserved |-> {}]

-----------------------------------------------------------------------------
Init ==
    /\ token_start \in TokenStarts
    /\ cnt = token_start
    /\ timeout \in Timeouts
    /\ gdb = None
    /\ alive = {}
    /\ nproc = 0
    /\ wire = <<>>
    /\ out = <<>>
    /\ booted = FALSE
    /\ hup = FALSE
    /\ pc = "idle"
    /\ ret = Ret("init", "ok", <<>>)
    /\ steps = <<>>
    /\ issued = <<>>
    /\ nsend = 0
    /\ nspawnok = 0
    /\ nclosed = 0
    /\ last = None
    /\ tmp = <<>>
    /\ call = NoCall
    /\ bind = NoBind
    /\ bound = <<>>
    /\ parked = <<>>
    /\ printed = <<>>
    /\ last_out_of_band = <<>>

ChildAlive == gdb # None /\ gdb[1] \in alive

\* A write to the PTY succeeds while its slave side is open, and fails
\* (OSError, EIO) once the child is gone and the slave side is closed; with
\* no child in the slot self._gdb.write is an AttributeError.
WriteOutcomes == IF gdb = None THEN {"AttributeError"}
                 ELSE IF hup THEN {"OSError"} ELSE {"ok"}

-----------------------------------------------------------------------------
\* GDBCtrl.send

\* Faulty variant: send() without the check of the trailing newline.
EndsWithNewlineMut(cmd) == FALSE

\* cmd.endswith('\n')
EndsWithNewline(cmd) == Len(cmd) > 0 /\ cmd[Len(cmd)] = NL

\* Faulty variant: send() that increments self._cnt before it takes the token.
SendTokenMut(token) ==
    IF token = None
    THEN IF cnt = None THEN <<>> ELSE Str(cnt[1] + 1)
    ELSE Str(token[1])

\* The token send() uses: the caller's, the counter's, or the empty one.
SendToken(token) ==
    IF token = None
    THEN IF cnt = None THEN <<>> ELSE Str(cnt[1])
    ELSE Str(token[1])

\* Faulty variant: send() that forgets self._cnt += 1.
SendCntMut(token) == cnt

\* Faulty variant: send() that counts every send, its token given or not.
SendCntAlways(token) == IF cnt # None THEN Some(cnt[1] + 1) ELSE cnt

\* Faulty variant: send() that takes a token only when there is a child.
SendCntLive(token) ==
    IF token = None /\ cnt # None /\ gdb # None THEN Some(cnt[1] + 1) ELSE cnt

\* self._cnt after send() chose its token.
SendCnt(token) ==
    IF token = None /\ cnt # None THEN Some(cnt[1] + 1) ELSE cnt

\* Faulty variant: send() that writes cmd + '\n' without the token in front.
SendBodyMut(cmd, token, o) ==
    IF EndsWithNewline(cmd)
    THEN /\ o = "ValueError"
         /\ UNCHANGED <<cnt, wire, issued>>
    ELSE /\ cnt' = SendCnt(token)
         /\ issued' = IF token = None /\ cnt # None
                      THEN Append(issued, SendToken(token)) ELSE issued
         /\ IF gdb = None
            THEN /\ o = "AttributeError"
                 /\ UNCHANGED wire
            ELSE /\ o \in WriteOutcomes
                 /\ wire' = IF o = "ok" THEN Append(wire, Data(cmd \o <<NL>>)) ELSE wire

\* The body of send(cmd, token) ending with outcome o ("ok": it returns
\* SendToken(token)).
SendBody(cmd, token, o) ==
    IF EndsWithNewline(cmd)
    THEN /\ o = "ValueError"
         /\ UNCHANGED <<cnt, wire, issued>>
    ELSE /\ cnt' = SendCnt(token)
         /\ issued' = IF token = None /\ cnt # None
                      THEN Append(issued, SendToken(token)) ELSE issued
         /\ IF gdb = None
            THEN /\ o = "AttributeError"
                 /\ UNCHANGED wire
            ELSE /\ o \in WriteOutcomes
                 /\ wire' = IF o = "ok"
                            THEN Append(wire, Data(SendToken(token) \o cmd \o <<NL>>))
                            ELSE wire

SendOutcomes == {"ok", "ValueError", "AttributeError", "OSError"}

send(cmd, token) ==
    /\ pc = "idle"
    /\ nsend < MaxSend
    /\ nsend' = nsend + 1
    /\ \E o \in SendOutcomes :
          /\ SendBody(cmd, token, o)
          /\ ret' = Ret("send", o, IF o = "ok" THEN SendToken(token) ELSE <<>>)
    /\ steps' = <<>>
    /\ UNCHANGED <<gdb, timeout, token_start, alive, nproc, out, booted, hup, pc,
                   nspawnok, nclosed>>
    /\ UNCHANGED svars

-----------------------------------------------------------------------------
\* pexpect's expect([r'\(gdb\) \r?\n', EOF]) as spawn uses it.

IsPromptLine(l) == l = PromptText
HasPrompt(q) == \E i \in 1..Len(q) : IsPromptLine(q[i])
FirstPrompt(q) ==
    CHOOSE i \in 1..Len(q) :
        IsPromptLine(q[i]) /\ \A j \in 1..(i - 1) : ~IsPromptLine(q[j])

\* Faulty variant: an expect that, on a match, consumes everything buffered.
ExpectPromptMut(o) ==
    \/ /\ HasPrompt(out)
       /\ o = "match"
       /\ out' = <<>>
    \/ /\ ~HasPrompt(out)
       /\ ~ChildAlive
       /\ o = "EOF"
       /\ out' = <<>>
    \/ /\ ~HasPrompt(out)
       /\ ChildAlive
       /\ timeout # None
       /\ o = "TIMEOUT"
       /\ out' = out

\* The expect ends with o: it matched the first prompt and consumed the
\* output up to it, or hit EOF (child gone, every byte consumed), or timed
\* out (self._timeout elapsed); with no prompt, a live child and no timeout
\* it keeps waiting.
ExpectPrompt(o) ==
    \/ /\ HasPrompt(out)
       /\ o = "match"
       /\ out' = SubSeq(out, FirstPrompt(out) + 1, Len(out))
    \/ /\ ~HasPrompt(out)
       /\ ~ChildAlive
       /\ o = "EOF"
       /\ out' = <<>>
    \/ /\ ~HasPrompt(out)
       /\ ChildAlive
       /\ timeout # None
       /\ o = "TIMEOUT"
       /\ out' = out

ExpectOutcomes == {"match", "EOF", "TIMEOUT"}
Raised(o) == IF o = "EOF" THEN "UnexpectedEOF" ELSE o

-----------------------------------------------------------------------------
\* GDBCtrl.spawn

\* Faulty variant: spawn() without the check of the child slot.
SpawnAllowedMut == TRUE

\* The check spawn() makes before it starts a process.
SpawnAllowed == gdb = None

spawn ==
    /\ pc = "idle"
    /\ IF ~SpawnAllowed
       THEN /\ ret' = Ret("spawn", "AlreadyRunning", <<>>)
            /\ UNCHANGED <<gdb, alive, nproc, wire, out, booted, hup, pc>>
       ELSE \/ /\ ret' = Ret("spawn", "ExceptionPexpect", <<>>)
               /\ UNCHANGED <<gdb, alive, nproc, wire, out, booted, hup, pc>>
            \/ /\ nproc < MaxProc
               /\ nproc' = nproc + 1
               /\ alive' = alive \cup {nproc + 1}
               /\ gdb' = Some(nproc + 1)
               /\ wire' = <<>>
               /\ out' = <<>>
               /\ booted' = FALSE
               /\ hup' = FALSE
               /\ pc' = "spawn_expect1"
               /\ UNCHANGED ret
    /\ steps' = <<>>
    /\ UNCHANGED <<cnt, timeout, token_start, issued, nsend, nspawnok, nclosed>>
    /\ UNCHANGED svars

\* The first expect returned: on the prompt send 'set confirm off'.
spawn_expect1 ==
    /\ pc = "spawn_expect1"
    /\ \E o \in ExpectOutcomes :
          /\ ExpectPrompt(o)
          /\ IF o = "match"
             THEN \E so \in SendOutcomes :
                     /\ SendBody(CmdSetConfirmOff, None, so)
                     /\ IF so = "ok"
                        THEN pc' = "spawn_expect2" /\ UNCHANGED ret
                        ELSE pc' = "idle" /\ ret' = Ret("spawn", so, <<>>)
             ELSE /\ pc' = "idle"
                  /\ ret' = Ret("spawn", Raised(o), <<>>)
                  /\ UNCHANGED <<cnt, wire, issued>>
    /\ UNCHANGED <<gdb, timeout, token_start, alive, nproc, booted, hup, steps,
                   nsend, nspawnok, nclosed>>
    /\ UNCHANGED svars

\* The second expect returned.
spawn_expect2 ==
    /\ pc = "spawn_expect2"
    /\ \E o \in ExpectOutcomes :
          /\ ExpectPrompt(o)
          /\ ret' = Ret("spawn", IF o = "match" THEN "ok" ELSE Raised(o), <<>>)
          /\ nspawnok' = IF o = "match" THEN nspawnok + 1 ELSE nspawnok
    /\ pc' = "idle"
    /\ UNCHANGED <<cnt, gdb, timeout, token_start, alive, nproc, wire, booted,
                   hup, steps, issued, nsend, nclosed>>
    /\ UNCHANGED svars

-----------------------------------------------------------------------------
\* GDBCtrl.recv

RecvTimeouts == {None, Some(-1), Some(1)}

\* The timeout pexpect applies: -1 stands for the one given to pexpect.spawn.
EffectiveTimeout(t) == IF t = Some(-1) THEN timeout ELSE t

\* expect([r'\r?\n', EOF, TIMEOUT]) returns: a line is there, or the child
\* is gone (EOF), or the timeout elapses; with no line, a live child and no
\* timeout it keeps waiting.
RecvReady(t) == out # <<>> \/ ~ChildAlive \/ EffectiveTimeout(t) # None

\* What recv() returns: the record of the oldest unread line, or None on EOF
\* or on a timeout.
RecvValue == IF out # <<>> THEN Some(ParseLine(Head(out) \o <<NL>>)) ELSE None

\* How recv() ends when a line was read: self._mi.parse_line(line) returns
\* the record of the line, or raises because the line is not MI output.
RecvOutcomeMut == "ok"
RecvOutcome ==
    IF out # <<>> /\ ParseLine(Head(out) \o <<NL>>).type = "invalid"
    THEN "ParsingError" ELSE "ok"

\* Faulty variant: a read that swallows everything that is buffered.
RecvRestMut == <<>>

\* What stays unread after recv(): the match of r'\r?\n' consumes one line; a
\* timeout or EOF consumes nothing.
RecvRest == IF out # <<>> THEN Tail(out) ELSE out

recv(t) ==
    /\ pc = "idle"
    /\ IF gdb = None
       THEN /\ ret' = Ret("recv", "AttributeError", <<>>)
            /\ UNCHANGED out
       ELSE /\ RecvReady(t)
            /\ out' = RecvRest
            /\ ret' = Ret("recv", RecvOutcome,
                          IF RecvOutcome = "ok" THEN RecvValue ELSE <<>>)
    /\ steps' = <<>>
    /\ UNCHANGED <<cnt, gdb, timeout, token_start, alive, nproc, wire, booted,
                   hup, pc, issued, nsend, nspawnok, nclosed>>
    /\ UNCHANGED svars

-----------------------------------------------------------------------------
\* SyncGDBCtrl.recv_all and SyncGDBCtrl.execute.  Each runs the coroutines
\* of the asynchronous controller to completion; the loop of recv_all is one
\* action per recv.  Of pretty printing the model keeps which records were
\* given to the printing methods (printed).

\* The commands given to execute: one line, or two lines in one string.
ExecCmds == {CmdListFeatures, <<"-list-features", NL, "-list-features">>}

\* timeout is None or (timeout == -1 and self._async_gdb._timeout is None)
Infinite(t) == t = None \/ (t = Some(-1) /\ timeout = None)

\* r is the prompt: parse_line gives '(gdb)' for it.
IsPrompt(r) == r # None /\ r[1].type = "prompt"

\* Faulty variant: recv_all() that ends on every prompt, whatever the timeout.
InEndSetAlways(t, r) == r = None \/ IsPrompt(r)

\* Faulty variant: recv_all() that only ends on None, whatever the timeout.
InEndSetMut(t, r) == r = None

\* r in end_set: ('(gdb)', None) with an infinite timeout, (None,) otherwise.
InEndSet(t, r) == IF Infinite(t) THEN r = None \/ IsPrompt(r) ELSE r = None

\* Faulty variant: recv_all() that keeps the prompts it reads.
CollectMut(q, r) == IF r # None THEN Append(q, r[1]) ELSE q

\* if r not in ('(gdb)', None): tmp.append(r)
Collect(q, r) == IF r # None /\ ~IsPrompt(r) THEN Append(q, r[1]) ELSE q

\* recv_all(timeout=t, pretty_print=pp) starts: tmp = []; r = 1.
recv_all(t, pp) ==
    /\ pc = "idle"
    /\ pc' = "ra_recv"
    /\ tmp' = <<>>
    /\ call' = [op |-> "recv_all", t |-> t, pp |-> pp, r |-> TRUE, cmd |-> <<>>,
                q |-> FALSE]
    /\ ret' = Ret("recv_all", "pending", <<>>)
    /\ steps' = <<>>
    /\ UNCHANGED <<cnt, gdb, timeout, token_start, alive, nproc, wire, out,
                   booted, hup, issued, nsend, nspawnok, nclosed, last, bvars>>
    /\ UNCHANGED <<parked, printed, last_out_of_band>>

\* Faulty variant: execute() that returns the batch and forgets self.last.
ExecuteLastMut(b) == last

\* self.last = elems
ExecuteLast(b) == Some(b)

\* Faulty variant: execute() that returns the batch whatever ret is.
ExecuteValueMut(b) == Some(b)

\* if ret: return elems
ExecuteValue(b) == IF call.r THEN Some(b) ELSE None

\* The session is quiescent: the child has printed its first prompt, nothing
\* it emitted is unread and nothing written to it is unanswered.
Quiescent == ChildAlive /\ booted /\ out = <<>> /\ wire = <<>>

\* execute(cmd, timeout=t, pretty_print=pp, ret=r): token = self.send(cmd),
\* then recv_all(t, pp) starts.
execute(cmd, t, pp, r) ==
    /\ pc = "idle"
    /\ nsend < MaxSend
    /\ nsend' = nsend + 1
    /\ \E o \in SendOutcomes :
          /\ SendBody(cmd, None, o)
          /\ IF o = "ok"
             THEN /\ pc' = "ra_recv"
                  /\ tmp' = <<>>
                  /\ call' = [op |-> "execute", t |-> t, pp |-> pp, r |-> r,
                              cmd |-> cmd, q |-> Quiescent]
                  /\ ret' = Ret("execute", "pending", <<>>)
             ELSE /\ pc' = "idle"
                  /\ ret' = Ret("execute", o, <<>>)
                  /\ UNCHANGED <<tmp, call>>
    /\ steps' = <<>>
    /\ UNCHANGED <<gdb, timeout, token_start, alive, nproc, out, booted, hup,
                   nspawnok, nclosed, last, bvars>>
    /\ UNCHANGED <<parked, printed, last_out_of_band>>

\* Where the execute in flight returns to: its caller is the user, or the
\* binder of gdb commands (extend_interface_with_gdb_commands calls _execute).
ReturnPc == IF bind.stage \in {"apropos", "alias", "help"} THEN "bind" ELSE "idle"

\* if pretty_print: the records of tmp are given to the printing methods.
Printed(b) == IF call.pp THEN b ELSE printed

\* One turn of the loop of recv_all: r = recv(timeout); r is collected
\* unless it is the prompt or None; the loop ends when r is in end_set, and
\* then recv_all prints tmp if asked to and returns it, and execute stores
\* and returns it.  An exception of recv (parse_line rejected the line) ends
\* the call, and the binder if it made the call.  (While a call is in flight
\* ret is "pending".)
ra_recv ==
    /\ pc = "ra_recv"
    /\ IF gdb = None
       THEN /\ ret' = Ret(call.op, "AttributeError", <<>>)
            /\ call' = NoCall
            /\ tmp' = <<>>
            /\ pc' = "idle"
            /\ UNCHANGED <<out, last, printed, bind>>
       ELSE /\ RecvReady(call.t)
            /\ out' = RecvRest
            /\ IF RecvOutcome # "ok"
               THEN /\ pc' = "idle"
                    /\ call' = NoCall
                    /\ tmp' = <<>>
                    /\ ret' = Ret(IF ReturnPc = "bind" THEN "extend" ELSE call.op,
                                  RecvOutcome, <<>>)
                    /\ bind' = IF ReturnPc = "bind"
                               THEN [bind EXCEPT !.stage = "done"] ELSE bind
                    /\ UNCHANGED <<last, printed>>
               ELSE /\ Len(Collect(tmp, RecvValue)) <= MaxBatch \/ bind.stage # "none"
                    /\ bind' = bind
                    /\ IF InEndSet(call.t, RecvValue)
                       THEN /\ pc' = ReturnPc
                            /\ call' = NoCall
                            /\ tmp' = <<>>
                            /\ printed' = Printed(Collect(tmp, RecvValue))
                            /\ IF call.op = "execute"
                               THEN /\ last' = ExecuteLast(Collect(tmp, RecvValue))
                                    /\ ret' = Ret("execute", "ok",
                                                  ExecuteValue(Collect(tmp, RecvValue)))
                               ELSE /\ last' = last
                                    /\ ret' = Ret("recv_all", "ok",
                                                  Some(Collect(tmp, RecvValue)))
                       ELSE /\ pc' = "ra_recv"
                            /\ tmp' = Collect(tmp, RecvValue)
                            /\ UNCHANGED <<ret, last, call, printed>>
    /\ UNCHANGED <<cnt, gdb, timeout, token_start, alive, nproc, wire, booted,
                   hup, steps, issued, nsend, nspawnok, nclosed, bound, parked,
                   last_out_of_band>>

-----------------------------------------------------------------------------
\* SyncGDBCtrl.extend_interface_with_gdb_commands: the binder of gdb commands.
\* The names of gdb commands and of Python attributes are sequences of
\* characters.

Letters == {"a", "b", "c", "d", "e", "f", "g", "h", "i", "j", "k", "l", "m",
            "n", "o", "p", "q", "r", "s", "t", "u", "v", "w", "x", "y", "z"}
White == {" ", NL}

\* Names of the model: attributes of the controller, a keyword, gdb commands.
NameSend == <<"s", "e", "n", "d">>
NameExecute == <<"e", "x", "e", "c", "u", "t", "e">>
NameShutdown == <<"s", "h", "u", "t", "d", "o", "w", "n">>
NameUExecute == <<"_", "e", "x", "e", "c", "u", "t", "e">>
NameUSyncCall == <<"_", "s", "y", "n", "c", "_", "c", "a", "l", "l">>
NameIf == <<"i", "f">>
NameRun == <<"r", "u", "n">>
NameADashB == <<"a", "-", "b">>
NameASpaceB == <<"a", " ", "b">>
NameSetX == <<"s", "e", "t", " ", "x">>
NameXDotY == <<"x", ".", "y">>

\* keyword.iskeyword
Keywords == {NameIf}
iskeyword(n) == n \in Keywords

\* dir(self) before anything is bound: the public methods and the internal
\* ones of SyncGDBCtrl.
PublicAttrs == {NameSend, NameExecute, NameShutdown}
InternalAttrs == {NameUExecute, NameUSyncCall}
InitialAttrs == PublicAttrs \cup InternalAttrs

\* dir(self): the attributes of the class and the ones setattr added.
Dir == InitialAttrs \cup {bound[i][1] : i \in 1..Len(bound)}

\* reserved = [m for m in dir(self) if m[0] != '_']
Reserved == {m \in Dir : m[1] # "_"}

\* str.strip()
RECURSIVE LStrip(_)
LStrip(s) == IF s # <<>> /\ Head(s) \in White THEN LStrip(Tail(s)) ELSE s
RECURSIVE RStrip(_)
RStrip(s) == IF s # <<>> /\ s[Len(s)] \in White
             THEN RStrip(SubSeq(s, 1, Len(s) - 1)) ELSE s
Strip(s) == RStrip(LStrip(s))

\* '--' in l, and l.split('--', 1)[0] of such an l
HasDashes(l) == \E i \in 1..(Len(l) - 1) : l[i] = "-" /\ l[i + 1] = "-"
RECURSIVE BeforeDashes(_)
BeforeDashes(l) == IF l[1] = "-" /\ l[2] = "-" THEN <<>>
                   ELSE <<Head(l)>> \o BeforeDashes(Tail(l))

\* g.startswith('set ')
StartsWithSet(g) == Len(g) >= 4 /\ SubSeq(g, 1, 4) = <<"s", "e", "t", " ">>

\* c.strip().replace(' ', '_').replace('-', '_')
Normalize(c) ==
    [i \in 1..Len(Strip(c)) |->
        IF Strip(c)[i] \in {" ", "-"} THEN "_" ELSE Strip(c)[i]]

\* str.isidentifier()
isidentifier(n) ==
    /\ n # <<>>
    /\ n[1] \in Letters \cup {"_"}
    /\ \A i \in 2..Len(n) : n[i] \in Letters \cup {"_"} \/ IsDigit(n[i])

\* The name a candidate is bound to: prefixed with 'z' if it is a keyword or
\* in reserved.
PyName(n, reserved) == IF iskeyword(n) \/ n \in reserved THEN <<"z">> \o n ELSE n

\* _console_lines(records): the text of the console stream records.
RECURSIVE _console_lines(_)
_console_lines(records) ==
    IF records = <<>> THEN <<>>
    ELSE (IF Head(records).type = "stream" /\ Head(records).class = "Console"
          THEN <<Head(records).payload>> ELSE <<>>)
         \o _console_lines(Tail(records))

\* gcmds: the text before '--' of the lines that hold one, stripped, but for
\* the ones that start with 'set '.
RECURSIVE gcmds(_)
gcmds(lines) ==
    IF lines = <<>> THEN <<>>
    ELSE (IF HasDashes(Head(lines))
             /\ ~StartsWithSet(Strip(BeforeDashes(Head(lines))))
          THEN <<Strip(BeforeDashes(Head(lines)))>> ELSE <<>>)
         \o gcmds(Tail(lines))

\* The commands of the binder.
CmdApropos == <<"apropos -*">>
AliasCmd(i, c) == <<"alias -a intwkqjwq">> \o Str(i) \o <<" = ">> \o c
HelpCmd(c) == <<"help ">> \o c

\* self._execute: the internal method, or the gdb command bound to that name.
ExecuteOverwritten == \E i \in 1..Len(bound) : bound[i][1] = NameUExecute

\* self._execute(cmd, timeout=None).  The internal method is
\* execute(cmd, timeout=None, pretty_print=False, ret=True); a method made by
\* _create_method is execute(gdbname + ' ' + cmd) with the defaults
\* timeout=-1 and ret=False (it ignores the keyword timeout).  b is the
\* binder's state while the call is in flight; an exception of send ends the
\* binder.
_execute(cmd, b) ==
    LET line == IF ExecuteOverwritten THEN NameUExecute \o <<" ">> \o cmd ELSE cmd
    IN  \E o \in SendOutcomes :
          /\ SendBody(line, None, o)
          /\ IF o = "ok"
             THEN /\ pc' = "ra_recv"
                  /\ tmp' = <<>>
                  /\ call' = [op |-> "execute",
                              t |-> IF ExecuteOverwritten THEN Some(-1) ELSE None,
                              pp |-> ExecuteOverwritten,
                              r |-> ~ExecuteOverwritten,
                              cmd |-> line, q |-> Quiescent]
                  /\ ret' = Ret("execute", "pending", <<>>)
                  /\ bind' = b
             ELSE /\ pc' = "idle"
                  /\ ret' = Ret("extend", o, <<>>)
                  /\ bind' = [bind EXCEPT !.stage = "done"]
                  /\ UNCHANGED <<tmp, call>>

\* The binder raises the exception e.
BindRaise(e) ==
    /\ pc' = "idle"
    /\ ret' = Ret("extend", e, <<>>)
    /\ bind' = [bind EXCEPT !.stage = "done"]
    /\ UNCHANGED <<cnt, wire, issued, tmp, call>>

\* extend_interface_with_gdb_commands() is called (once in a session):
\* lines = self._execute('apropos -*', timeout=None) starts.
extend_interface_with_gdb_commands ==
    /\ pc = "idle"
    /\ bind.stage = "none"
    /\ _execute(CmdApropos, [bind EXCEPT !.stage = "apropos"])
    /\ steps' = <<>>
    /\ UNCHANGED <<gdb, timeout, token_start, alive, nproc, out, booted, hup,
                   nsend, nspawnok, nclosed, last, bound>>
    /\ UNCHANGED <<parked, printed, last_out_of_band>>

\* The apropos returned: the candidates are the gcmds of its console lines
\* (the generators are lazy: nothing else is evaluated yet), and reserved is
\* computed.
ext_apropos ==
    /\ pc = "bind"
    /\ bind.stage = "apropos"
    /\ bind' = [stage |-> "next", cands |-> gcmds(_console_lines(ret.value[1])),
                idx |-> 0, name |-> <<>>, reserved |-> Reserved]
    /\ UNCHANGED <<cnt, gdb, timeout, token_start, alive, nproc, wire, out,
                   booted, hup, pc, ret, steps, issued, nsend, nspawnok,
                   nclosed, last, tmp, call, bound>>
    /\ UNCHANGED <<parked, printed, last_out_of_band>>

\* The for loop asks meths for its next element: the next candidate is
\* pulled through the filters, and first its alias probe starts; with no
\* candidate left the binder returns.
ext_next ==
    /\ pc = "bind"
    /\ bind.stage = "next"
    /\ IF bind.cands = <<>>
       THEN /\ pc' = "idle"
            /\ ret' = Ret("extend", "ok", <<>>)
            /\ bind' = [bind EXCEPT !.stage = "done"]
            /\ UNCHANGED <<cnt, wire, issued, tmp, call>>
       ELSE _execute(AliasCmd(bind.idx, Head(bind.cands)),
                     [bind EXCEPT !.stage = "alias", !.name = Head(bind.cands),
                                  !.cands = Tail(bind.cands), !.idx = @ + 1])
    /\ UNCHANGED <<gdb, timeout, token_start, alive, nproc, out, booted, hup,
                   steps, nsend, nspawnok, nclosed, last, bound>>
    /\ UNCHANGED <<parked, printed, last_out_of_band>>

\* The probe's batch ends with a Result of class done.
ProbeDone(b) == b[Len(b)].type = "result" /\ b[Len(b)].class = "done"

\* The alias probe returned: [-1].is_result('done') of what it returned; a
\* candidate that passes is normalized and, if its name is an identifier,
\* its help probe starts; any other candidate is dropped.
ext_alias ==
    /\ pc = "bind"
    /\ bind.stage = "alias"
    /\ IF ret.value = None
       THEN BindRaise("TypeError")
       ELSE IF ret.value[1] = <<>>
       THEN BindRaise("IndexError")
       ELSE IF ProbeDone(ret.value[1]) /\ isidentifier(Normalize(bind.name))
       THEN _execute(HelpCmd(bind.name), [bind EXCEPT !.stage = "help"])
       ELSE /\ bind' = [bind EXCEPT !.stage = "next"]
            /\ UNCHANGED <<cnt, wire, issued, pc, ret, tmp, call>>
    /\ UNCHANGED <<gdb, timeout, token_start, alive, nproc, out, booted, hup,
                   steps, nsend, nspawnok, nclosed, last, bound>>
    /\ UNCHANGED <<parked, printed, last_out_of_band>>

\* The help probe returned: the method is made and
\* setattr(self, pyname, method) binds it.
ext_help ==
    /\ pc = "bind"
    /\ bind.stage = "help"
    /\ IF ret.value = None
       THEN /\ BindRaise("TypeError")
            /\ UNCHANGED bound
       ELSE /\ bound' = Append(bound, <<PyName(Normalize(bind.name), bind.reserved),
                                        bind.name>>)
            /\ bind' = [bind EXCEPT !.stage = "next"]
            /\ UNCHANGED <<cnt, wire, issued, pc, ret, tmp, call>>
    /\ UNCHANGED <<gdb, timeout, token_start, alive, nproc, out, booted, hup,
                   steps, nsend, nspawnok, nclosed, last>>
    /\ UNCHANGED <<parked, printed, last_out_of_band>>

-----------------------------------------------------------------------------
\* GDBCtrl.shutdown, one action per step

\* Faulty variant: shutdown() that closes stdin before it writes -gdb-exit.
NextStepMut(p) ==
    CASE p = "sd_intr" -> "sd_sleep"
      [] p = "sd_sleep" -> "sd_eof"
      [] p = "sd_eof" -> "sd_write"
      [] p = "sd_write" -> "sd_drain"
      [] p = "sd_drain" -> "sd_close"
      [] p = "sd_close" -> "idle"

\* The order of the statements of shutdown(): the step after step p.
NextStep(p) ==
    CASE p = "sd_intr" -> "sd_sleep"
      [] p = "sd_sleep" -> "sd_write"
      [] p = "sd_write" -> "sd_eof"
      [] p = "sd_eof" -> "sd_drain"
      [] p = "sd_drain" -> "sd_close"
      [] p = "sd_close" -> "idle"

\* The check shutdown() makes before it touches the child.
ShutdownNoop == gdb = None

\* if self._gdb is None: return; self._gdb.sendintr()
shutdown ==
    /\ pc = "idle"
    /\ IF ShutdownNoop
       THEN /\ ret' = Ret("shutdown", "ok", <<>>)
            /\ steps' = <<>>
            /\ UNCHANGED <<wire, pc>>
       ELSE \E o \in WriteOutcomes :
               IF o = "ok"
               THEN /\ wire' = Append(wire, Intr)
                    /\ steps' = <<"intr">>
                    /\ pc' = NextStep("sd_intr")
                    /\ UNCHANGED ret
               ELSE /\ ret' = Ret("shutdown", o, <<>>)
                    /\ steps' = <<>>
                    /\ UNCHANGED <<wire, pc>>
    /\ UNCHANGED <<cnt, gdb, timeout, token_start, alive, nproc, out, booted,
                   hup, issued, nsend, nspawnok, nclosed>>
    /\ UNCHANGED svars

\* await asyncio.sleep(0.5)
sd_sleep ==
    /\ pc = "sd_sleep"
    /\ steps' = Append(steps, "sleep")
    /\ pc' = NextStep(pc)
    /\ UNCHANGED <<cnt, gdb, timeout, token_start, alive, nproc, wire, out,
                   booted, hup, ret, issued, nsend, nspawnok, nclosed>>
    /\ UNCHANGED svars

\* self._gdb.write('-gdb-exit\n'); self._gdb.flush()
sd_write ==
    /\ pc = "sd_write"
    /\ \E o \in WriteOutcomes :
          IF o = "ok"
          THEN /\ wire' = Append(wire, Data(CmdGdbExit \o <<NL>>))
               /\ steps' = steps \o <<"write", "flush">>
               /\ pc' = NextStep(pc)
               /\ UNCHANGED ret
          ELSE /\ ret' = Ret("shutdown", o, <<>>)
               /\ pc' = "idle"
               /\ UNCHANGED <<wire, steps>>
    /\ UNCHANGED <<cnt, gdb, timeout, token_start, alive, nproc, out, booted,
                   hup, issued, nsend, nspawnok, nclosed>>
    /\ UNCHANGED svars

\* self._gdb.sendeof()
sd_eof ==
    /\ pc = "sd_eof"
    /\ \E o \in WriteOutcomes :
          IF o = "ok"
          THEN /\ wire' = Append(wire, Eof)
               /\ steps' = Append(steps, "eof")
               /\ pc' = NextStep(pc)
               /\ UNCHANGED ret
          ELSE /\ ret' = Ret("shutdown", o, <<>>)
               /\ pc' = "idle"
               /\ UNCHANGED <<wire, steps>>
    /\ UNCHANGED <<cnt, gdb, timeout, token_start, alive, nproc, out, booted,
                   hup, issued, nsend, nspawnok, nclosed>>
    /\ UNCHANGED svars

\* Where the drain loop goes after a read of n characters: while n.
AfterRead(n) == IF n # 0 THEN "sd_drain" ELSE NextStep("sd_drain")

\* One turn of the drain loop: read_nonblocking(1024, timeout=5) returns
\* some of the pending output (n > 0), or nothing decodable yet (n = 0), or
\* raises EOF (child gone, nothing pending) or TIMEOUT (child silent for
\* 5 s); any exception breaks the loop.
sd_drain ==
    /\ pc = "sd_drain"
    /\ steps' = IF steps[Len(steps)] = "drain" THEN steps ELSE Append(steps, "drain")
    /\ \/ /\ out # <<>>
          /\ \E k \in 0..Len(out) :
                /\ out' = SubSeq(out, k + 1, Len(out))
                /\ pc' = AfterRead(k)
       \/ /\ out = <<>>
          /\ pc' = NextStep(pc)
          /\ UNCHANGED out
    /\ UNCHANGED <<cnt, gdb, timeout, token_start, alive, nproc, wire, booted,
                   hup, ret, issued, nsend, nspawnok, nclosed>>
    /\ UNCHANGED svars

\* Faulty variant: shutdown() that force-closes the child and keeps it in the slot.
sd_closeMut ==
    /\ pc = "sd_close"
    /\ alive' = alive \ {gdb[1]}
    /\ steps' = Append(steps, "close")
    /\ ret' = Ret("shutdown", "ok", <<>>)
    /\ pc' = NextStep(pc)
    /\ nclosed' = nclosed + 1
    /\ UNCHANGED <<cnt, gdb, timeout, token_start, nproc, wire, out, booted,
                   hup, issued, nsend, nspawnok>>
    /\ UNCHANGED svars

\* Faulty variant: shutdown() that empties the slot without killing the child.
sd_closeLeak ==
    /\ pc = "sd_close"
    /\ gdb' = None
    /\ wire' = <<>>
    /\ out' = <<>>
    /\ steps' = Append(steps, "close")
    /\ ret' = Ret("shutdown", "ok", <<>>)
    /\ pc' = NextStep(pc)
    /\ booted' = FALSE
    /\ hup' = FALSE
    /\ nclosed' = nclosed + 1
    /\ UNCHANGED <<cnt, timeout, token_start, alive, nproc, issued, nsend, nspawnok>>
    /\ UNCHANGED svars

\* self._gdb.close(force=True); self._gdb = None
sd_close ==
    /\ pc = "sd_close"
    /\ alive' = alive \ {gdb[1]}
    /\ gdb' = None
    /\ wire' = <<>>
    /\ out' = <<>>
    /\ steps' = Append(steps, "close")
    /\ ret' = Ret("shutdown", "ok", <<>>)
    /\ pc' = NextStep(pc)
    /\ booted' = FALSE
    /\ hup' = FALSE
    /\ nclosed' = nclosed + 1
    /\ UNCHANGED <<cnt, timeout, token_start, nproc, issued, nsend, nspawnok>>
    /\ UNCHANGED svars

-----------------------------------------------------------------------------
\* The child in the slot: gdb in MI mode behind the PTY.

\* The result classes gdb may answer the command c with: -gdb-exit gives
\* ^exit, set confirm off and -list-features always succeed, any other
\* command succeeds or fails.
Classes(c) ==
    IF c = CmdGdbExit THEN {"exit"}
    ELSE IF c \in {CmdSetConfirmOff, CmdListFeatures} THEN {"done"}
    ELSE {"done", "error"}

\* The sequences of at most n elements of S.
RECURSIVE SeqsUpTo(_, _)
SeqsUpTo(S, n) ==
    IF n = 0 THEN {<<>>}
    ELSE SeqsUpTo(S, n - 1)
         \cup {Append(q, x) : q \in {r \in SeqsUpTo(S, n - 1) : Len(r) = n - 1}, x \in S}

\* A console stream line with the text s, and the line apropos prints for a
\* command: its name, ' -- ' and a summary.
ConsoleText(s) == <<"~">> \o s
AproposLine(c) == ConsoleText(c \o <<" ", "-", "-", " ", "d", "o", "c", NL>>)

\* What apropos -* may print: at most MaxCand lines, each the line of a
\* command (or of something that is no command), or a line with no '--'.
AproposLines ==
    {AproposLine(c) : c \in {NameRun, NameSend, NameIf, NameADashB, NameASpaceB,
                             NameUExecute, NameSetX, NameXDotY}}
    \cup {ConsoleText(<<"n", "o", NL>>)}

\* The episodes gdb may answer the command line tok c with.
Episodes(tok, c) ==
    IF c = <<>>
    THEN {<<PromptText>>}
    ELSE IF c = CmdApropos
    THEN {ls \o <<ResultText(tok, "done", c), PromptText>> :
             ls \in SeqsUpTo(AproposLines, MaxCand)}
    ELSE IF Head(c) = "help "
    THEN {<<ConsoleText(<<"d", "o", "c", NL>>), ResultText(tok, "done", c), PromptText>>}
    ELSE {<<ResultText(tok, class, c), PromptText>> : class \in Classes(c)}

\* The index of the first newline of s (Len(s) + 1 if none).
RECURSIVE FirstNL(_)
FirstNL(s) == IF s = <<>> \/ Head(s) = NL THEN 1 ELSE 1 + FirstNL(Tail(s))

\* gdb starts: an optional notification, then the first prompt.
GdbBoot ==
    /\ ChildAlive
    /\ ~booted
    /\ \E b \in {<<PromptText>>, <<AsyncText, PromptText>>} :
          /\ Len(out) + Len(b) <= MaxOut
          /\ out' = out \o b
    /\ booted' = TRUE
    /\ UNCHANGED <<cnt, gdb, timeout, token_start, alive, nproc, wire, hup, pc,
                   ret, steps, issued, nsend, nspawnok, nclosed>>
    /\ UNCHANGED svars

\* gdb reads the next line of its input and answers a command with an
\* episode; at most room lines are left unread by the controller.
GdbReadRoom(room) ==
    /\ ChildAlive
    /\ booted
    /\ wire # <<>>
    /\ LET item == Head(wire)
           k == FirstNL(item.data)
           line == SubSeq(item.data, 1, k - 1)
           rest == SubSeq(item.data, k + 1, Len(item.data))
           n == DigitPrefix(line)
       IN  IF item.kind = "data"
           THEN /\ wire' = IF rest = <<>> THEN Tail(wire) ELSE <<Data(rest)>> \o Tail(wire)
                /\ \E ep \in Episodes(SubSeq(line, 1, n), SubSeq(line, n + 1, Len(line))) :
                      /\ out = <<>> \/ Len(out) + Len(ep) <= room
                      /\ out' = out \o ep
           ELSE /\ wire' = Tail(wire)
                /\ UNCHANGED out
    /\ UNCHANGED <<cnt, gdb, timeout, token_start, alive, nproc, booted, hup, pc,
                   ret, steps, issued, nsend, nspawnok, nclosed>>
    /\ UNCHANGED svars

GdbRead == GdbReadRoom(MaxOut)

\* gdb reports an event of the inferior on its own.
GdbEmit ==
    /\ ChildAlive
    /\ booted
    /\ Len(out) < MaxOut
    /\ out' = Append(out, AsyncText)
    /\ UNCHANGED <<cnt, gdb, timeout, token_start, alive, nproc, wire, booted,
                   hup, pc, ret, steps, issued, nsend, nspawnok, nclosed>>
    /\ UNCHANGED svars

\* A line that is not MI output appears on the PTY: the program being
\* debugged writes to the terminal it shares with gdb.
JunkText == <<"hello">>
GdbJunk ==
    /\ ChildAlive
    /\ booted
    /\ Len(out) < MaxOut
    /\ out' = Append(out, JunkText)
    /\ UNCHANGED <<cnt, gdb, timeout, token_start, alive, nproc, wire, booted,
                   hup, pc, ret, steps, issued, nsend, nspawnok, nclosed>>
    /\ UNCHANGED svars

\* The child exits (on a command, a signal, EOF on its input, or a crash).
\* The slave side of its PTY is closed with it, unless something else (the
\* inferior, the platform) keeps it usable.
ChildExit ==
    /\ ChildAlive
    /\ alive' = alive \ {gdb[1]}
    /\ booted' = FALSE
    /\ hup' \in BOOLEAN
    /\ UNCHANGED <<cnt, gdb, timeout, token_start, nproc, wire, out, pc, ret,
                   steps, issued, nsend, nspawnok, nclosed>>
    /\ UNCHANGED svars

-----------------------------------------------------------------------------
\* GDB (src/gdb.py): the first variant of the controller.  It is synchronous:
\* the constructor starts the child and does the handshake, send() writes a
\* command and reads up to a prompt, shutdown() ends the child.

\* The token occurs in the line l: the regular expression of send() starts
\* with the token and may match anywhere.
Contains(l, tok) ==
    \E i \in 1..(Len(l) - Len(tok) + 1) : SubSeq(l, i, i + Len(tok) - 1) = tok

\* Where a match of r'%s.*\(gdb\) \r?\n' % token may end in the unread
\* output q: at a prompt that follows a line with the token.  pexpect
\* compiles with DOTALL, so '.*' crosses lines and takes all that was read
\* from the PTY when the match is found: the match ends at any such prompt.
MatchEnds(q, tok) ==
    {p \in 1..Len(q) : IsPromptLine(q[p]) /\ \E k \in 1..(p - 1) : Contains(q[k], tok)}

\* for line in output.splitlines(True): tmp.append(self._mi.parse_line(line))
ParseLines(q) == [i \in 1..Len(q) |-> ParseLine(q[i] \o <<NL>>)]

\* if not tmp or tmp[-1] != '(gdb)'
MissingPrompt(recs) == recs = <<>> \/ recs[Len(recs)].type # "prompt"

\* tmp after tmp.pop()
Popped(recs) == SubSeq(recs, 1, Len(recs) - 1)

\* if tmp and tmp[-1].type == 'Sync'
HasResult(recs) == recs # <<>> /\ recs[Len(recs)].type = "result"

\* result: the last of the records left after the prompt was popped, if it
\* is a result record.
GDBResult(recs) ==
    IF HasResult(Popped(recs)) THEN Some(Popped(recs)[Len(recs) - 1]) ELSE None

\* The records of recs that are no prompt.
NonPrompt(recs) == SelectSeq(recs, LAMBDA r : r.type # "prompt")

\* Faulty variant: a send() that keeps no prompt record in out_of_band.
GDBOutOfBandMut(recs) ==
    NonPrompt(IF HasResult(Popped(recs)) THEN Popped(Popped(recs)) ELSE Popped(recs))

\* out_of_band: what is left of tmp.
GDBOutOfBand(recs) ==
    IF HasResult(Popped(recs)) THEN Popped(Popped(recs)) ELSE Popped(recs)

\* The call of the first variant in flight: the constructor or a send, its
\* command and its token.
GDBCall(op, cmd, tok) == [op |-> op, cmd |-> cmd, token |-> tok]

\* The first statements of send(cmd): the check of the trailing newline, the
\* token, the counter and the write, ending with outcome o ("ok": the call
\* goes on to the expect).
GDBSendStart(op, cmd, o) ==
    IF EndsWithNewline(cmd)
    THEN /\ o = "ValueError"
         /\ UNCHANGED <<cnt, issued, wire, call>>
    ELSE /\ cnt' = Some(cnt[1] + 1)
         /\ issued' = Append(issued, Str(cnt[1]))
         /\ o \in WriteOutcomes
         /\ IF o = "ok"
            THEN /\ wire' = Append(wire, Data(Str(cnt[1]) \o cmd \o <<NL>>))
                 /\ call' = GDBCall(op, cmd, Str(cnt[1]))
            ELSE UNCHANGED <<wire, call>>

\* The constructor returned normally: there is a GDB object.
Constructed == nspawnok > 0

\* GDB.__init__ up to its first expect: self._cnt = token_start,
\* pexpect.spawn(...), self.last_out_of_band = [].
GDB_init ==
    /\ pc = "idle"
    /\ gdb = None
    /\ \/ /\ ret' = Ret("GDB.__init__", "ExceptionPexpect", <<>>)
          /\ UNCHANGED <<gdb, alive, nproc, wire, out, booted, hup, pc>>
       \/ /\ nproc < MaxProc
          /\ nproc' = nproc + 1
          /\ alive' = alive \cup {nproc + 1}
          /\ gdb' = Some(nproc + 1)
          /\ wire' = <<>>
          /\ out' = <<>>
          /\ booted' = FALSE
          /\ hup' = FALSE
          /\ pc' = "GDB_init_expect"
          /\ UNCHANGED ret
    /\ cnt' = token_start
    /\ last_out_of_band' = <<>>
    /\ steps' = <<>>
    /\ UNCHANGED <<timeout, token_start, issued, nsend, nspawnok, nclosed>>
    /\ UNCHANGED <<last, tmp, call, bvars, parked, printed>>

\* self._gdb.expect(r'\(gdb\) \r?\n') returned: on the prompt the
\* constructor goes on with self.send('set confirm off').
GDB_init_expect ==
    /\ pc = "GDB_init_expect"
    /\ \E o \in ExpectOutcomes :
          /\ ExpectPrompt(o)
          /\ IF o = "match"
             THEN \E so \in SendOutcomes :
                     /\ GDBSendStart("GDB.__init__", CmdSetConfirmOff, so)
                     /\ IF so = "ok"
                        THEN pc' = "GDB_send_expect" /\ UNCHANGED ret
                        ELSE pc' = "idle" /\ ret' = Ret("GDB.__init__", so, <<>>)
             ELSE /\ pc' = "idle"
                  /\ ret' = Ret("GDB.__init__", o, <<>>)
                  /\ UNCHANGED <<cnt, issued, wire, call>>
    /\ UNCHANGED <<gdb, timeout, token_start, alive, nproc, booted, hup, steps,
                   nsend, nspawnok, nclosed>>
    /\ UNCHANGED <<last, tmp, bvars, parked, printed, last_out_of_band>>

\* The commands given to GDB.send.
GDBCmds == ExecCmds \cup {<<"-exec-run", NL>>}

\* send(cmd) (console_lines=False) up to its expect.
GDB_send(cmd) ==
    /\ pc = "idle"
    /\ Constructed
    /\ nsend < MaxSend
    /\ nsend' = nsend + 1
    /\ \E o \in SendOutcomes :
          /\ GDBSendStart("GDB.send", cmd, o)
          /\ IF o = "ok"
             THEN pc' = "GDB_send_expect" /\ UNCHANGED ret
             ELSE pc' = "idle" /\ ret' = Ret("GDB.send", o, <<>>)
    /\ steps' = <<>>
    /\ UNCHANGED <<gdb, timeout, token_start, alive, nproc, out, booted, hup,
                   nspawnok, nclosed>>
    /\ UNCHANGED <<last, tmp, bvars, parked, printed, last_out_of_band>>

\* How the send that read the lines q ends.
GDBSendOutcome(q) ==
    IF \E i \in 1..Len(q) : ParseLine(q[i] \o <<NL>>).type = "invalid"
    THEN "ParsingError"
    ELSE IF MissingPrompt(ParseLines(q)) THEN "MissingPrompt" ELSE "ok"

\* self._gdb.expect(r'%s.*\(gdb\) \r?\n' % token) returned, and the rest of
\* send(): the output up to the end of the match is parsed line by line and
\* split into result and out_of_band.  With no match the expect raises EOF
\* (the child is gone, every byte consumed) or TIMEOUT (pexpect's default
\* timeout elapsed).  The send of the constructor ends the constructor.
GDB_send_expect ==
    /\ pc = "GDB_send_expect"
    /\ pc' = "idle"
    /\ call' = NoCall
    /\ IF MatchEnds(out, call.token) # {}
       THEN \E p \in MatchEnds(out, call.token) :
               LET q == SubSeq(out, 1, p)
                   recs == ParseLines(q)
                   o == GDBSendOutcome(q)
               IN  /\ out' = SubSeq(out, p + 1, Len(out))
                   /\ IF o = "ok"
                      THEN /\ last_out_of_band' = GDBOutOfBand(recs)
                           /\ ret' = Ret(call.op, "ok",
                                         IF call.op = "GDB.send"
                                         THEN <<GDBResult(recs), GDBOutOfBand(recs)>>
                                         ELSE <<>>)
                           /\ nspawnok' = IF call.op = "GDB.send" THEN nspawnok
                                          ELSE nspawnok + 1
                      ELSE /\ ret' = Ret(call.op, o, <<>>)
                           /\ UNCHANGED <<last_out_of_band, nspawnok>>
       ELSE /\ ret' = Ret(call.op, IF ChildAlive THEN "TIMEOUT" ELSE "EOF", <<>>)
            /\ out' = IF ChildAlive THEN out ELSE <<>>
            /\ UNCHANGED <<last_out_of_band, nspawnok>>
    /\ UNCHANGED <<cnt, gdb, timeout, token_start, alive, nproc, wire, booted,
                   hup, steps, issued, nsend, nclosed>>
    /\ UNCHANGED <<last, tmp, bvars, parked, printed>>

\* GDB.shutdown: self._gdb.sendintr(), then time.sleep(0.5).  The module
\* never imports time (it imports re, keyword, types, pprint, sys, os and
\* pexpect), so the name is unbound when the statement runs and the call
\* ends there with a NameError: the statements after it (the write of
\* -gdb-exit, sendeof, the drain loop, close(force=True)) are never run.
GDB_shutdown ==
    /\ pc = "idle"
    /\ Constructed
    /\ Len(wire) < MaxOut
    /\ \E o \in WriteOutcomes :
          IF o = "ok"
          THEN /\ wire' = Append(wire, Intr)
               /\ steps' = <<"intr">>
               /\ ret' = Ret("GDB.shutdown", "NameError", <<>>)
          ELSE /\ ret' = Ret("GDB.shutdown", o, <<>>)
               /\ steps' = <<>>
               /\ UNCHANGED wire
    /\ UNCHANGED <<cnt, gdb, timeout, token_start, alive, nproc, out, booted,
                   hup, pc, issued, nsend, nspawnok, nclosed>>
    /\ UNCHANGED svars

-----------------------------------------------------------------------------
Next ==
    \/ spawn
    \/ spawn_expect1
    \/ spawn_expect2
    \/ \E c \in Cmds, t \in Tokens : send(c, t)
    \/ \E t \in RecvTimeouts : recv(t)
    \/ shutdown
    \/ sd_sleep
    \/ sd_write
    \/ sd_eof
    \/ sd_drain
    \/ sd_close
    \/ GdbBoot
    \/ GdbRead
    \/ GdbEmit
    \/ ChildExit

Spec == Init /\ [][Next]_vars

\* The steps of a shutdown in flight are taken: the event loop resumes the
\* coroutine after the sleep and every blocking call of it returns.
FairSpec ==
    /\ Spec
    /\ WF_vars(sd_sleep)
    /\ WF_vars(sd_write)
    /\ WF_vars(sd_eof)
    /\ WF_vars(sd_drain)
    /\ WF_vars(sd_close)

\* One session of the synchronous controller, SyncGDBCtrl(timeout=...) with
\* the default token_start, from its construction to the exit of its child:
\* spawn, send with the token left to the controller, recv_all and execute
\* (both with pretty_print=False).
SyncNext ==
    \/ spawn
    \/ spawn_expect1
    \/ spawn_expect2
    \/ \E c \in Cmds : send(c, None)
    \/ \E t \in RecvTimeouts : recv_all(t, FALSE)
    \/ \E c \in ExecCmds, t \in RecvTimeouts, r \in BOOLEAN : execute(c, t, FALSE, r)
    \/ ra_recv
    \/ GdbBoot
    \/ GdbRead
    \/ GdbEmit
    \/ ChildExit

SyncInit == Init /\ token_start = Some(DefaultTokenStart)

SyncSpec == SyncInit /\ [][SyncNext]_vars

\* One session of the synchronous controller in which the commands of gdb are
\* bound: spawn, then extend_interface_with_gdb_commands.
BindNext ==
    \/ spawn
    \/ spawn_expect1
    \/ spawn_expect2
    \/ extend_interface_with_gdb_commands
    \/ ext_apropos
    \/ ext_next
    \/ ext_alias
    \/ ext_help
    \/ ra_recv
    \/ GdbBoot
    \/ GdbRead
    \/ ChildExit

BindSpec == SyncInit /\ [][BindNext]_vars

\* One session of the synchronous controller with a program that writes to
\* the terminal: spawn, execute with any of its arguments, recv.
CodecNext ==
    \/ spawn
    \/ spawn_expect1
    \/ spawn_expect2
    \/ \E t \in RecvTimeouts, pp \in BOOLEAN, r \in BOOLEAN :
          execute(CmdListFeatures, t, pp, r)
    \/ ra_recv
    \/ \E t \in RecvTimeouts : recv(t)
    \/ GdbBoot
    \/ GdbRead
    \/ GdbJunk
    \/ ChildExit

CodecSpec == SyncInit /\ [][CodecNext]_vars

\* Several tasks on one GDBCtrl.  The event loop runs one coroutine at a
\* time and switches only at an await that suspends: the two expects of spawn
\* and the sleep of shutdown (send has no await; recv is its one expect, and
\* takes effect when that completes).  pc is the position of the coroutine
\* that runs; the suspended ones are parked with their position, the child
\* their expect was started on, and the steps of their shutdown.
AwaitPoints == {"spawn_expect1", "spawn_expect2", "sd_sleep"}

\* parked without its i-th element.
Unpark(i) == SubSeq(parked, 1, i - 1) \o SubSeq(parked, i + 1, Len(parked))

\* The coroutine that runs is suspended at its await; another task may run.
Suspend ==
    /\ pc \in AwaitPoints
    /\ Len(parked) < MaxTasks - 1
    /\ parked' = Append(parked, [pos |-> pc, child |-> gdb, steps |-> steps])
    /\ pc' = "idle"
    /\ steps' = <<>>
    /\ UNCHANGED <<cnt, gdb, timeout, token_start, alive, nproc, wire, out,
                   booted, hup, ret, issued, nsend, nspawnok, nclosed>>
    /\ UNCHANGED <<last, tmp, call, bvars, printed, last_out_of_band>>

\* A suspended coroutine is resumed.  The expect of a spawn was started on the
\* child that was in the slot then: if the slot holds another child or none
\* now, that expect ends with EOF on the closed child, or with the prompt it
\* had read before the close, and spawn goes on with self._gdb as it is now.
Resume ==
    /\ pc = "idle"
    /\ \E i \in 1..Len(parked) :
          /\ parked' = Unpark(i)
          /\ IF parked[i].pos = "sd_sleep" \/ parked[i].child = gdb
             THEN /\ pc' = parked[i].pos
                  /\ steps' = parked[i].steps
                  /\ UNCHANGED <<cnt, wire, ret, issued, nspawnok>>
             ELSE /\ steps' = <<>>
                  /\ \/ /\ pc' = "idle"
                        /\ ret' = Ret("spawn", Raised("EOF"), <<>>)
                        /\ UNCHANGED <<cnt, wire, issued, nspawnok>>
                     \/ /\ parked[i].pos = "spawn_expect1"
                        /\ \E so \in SendOutcomes :
                              /\ SendBody(CmdSetConfirmOff, None, so)
                              /\ IF so = "ok"
                                 THEN pc' = "spawn_expect2" /\ UNCHANGED ret
                                 ELSE pc' = "idle" /\ ret' = Ret("spawn", so, <<>>)
                        /\ UNCHANGED nspawnok
                     \/ /\ parked[i].pos = "spawn_expect2"
                        /\ pc' = "idle"
                        /\ ret' = Ret("spawn", "ok", <<>>)
                        /\ nspawnok' = nspawnok + 1
                        /\ UNCHANGED <<cnt, wire, issued>>
    /\ UNCHANGED <<gdb, timeout, token_start, alive, nproc, out, booted, hup,
                   nsend, nclosed>>
    /\ UNCHANGED <<last, tmp, call, bvars, printed, last_out_of_band>>

\* The tasks of one event loop call spawn, send, recv and shutdown on one
\* GDBCtrl() (default token_start, no timeout), in any interleaving.
ConcNext ==
    \/ spawn
    \/ spawn_expect1
    \/ spawn_expect2
    \/ send(CmdListFeatures, None)
    \/ recv(Some(-1))
    \/ shutdown
    \/ sd_sleep
    \/ sd_write
    \/ sd_eof
    \/ sd_drain
    \/ sd_close
    \/ GdbBoot
    \/ GdbRead
    \/ ChildExit
    \/ Suspend
    \/ Resume

ConcInit == SyncInit /\ timeout = None

ConcSpec == ConcInit /\ [][ConcNext]_vars

\* The first variant: one GDB object and its child.  pexpect's default
\* timeout is finite.
GDBNext ==
    \/ GDB_init
    \/ GDB_init_expect
    \/ \E cmd \in GDBCmds : GDB_send(cmd)
    \/ GDB_send_expect
    \/ GDB_shutdown
    \/ GdbBoot
    \/ GdbReadRoom(MaxLines)
    \/ GdbEmit
    \/ ChildExit

GDBInit == SyncInit /\ timeout # None

GDBSpec == GDBInit /\ [][GDBNext]_vars

-----------------------------------------------------------------------------
\* C1: the controller never has more than one live child, and every live
\* child is the one of the slot; a spawn called with the slot occupied fails
\* with AlreadyRunning, starts no process and leaves the child, its PTY and
\* the token counter as they were.
C1_AtMostOneChild ==
    [][/\ Cardinality(alive') <= 1
       /\ alive' \subseteq (IF gdb' = None THEN {} ELSE {gdb'[1]})
       /\ (spawn /\ gdb # None) =>
             /\ ret' = Ret("spawn", "AlreadyRunning", <<>>)
             /\ UNCHANGED <<gdb, alive, nproc, cnt, issued, wire, out, pc>>]_vars

C1_Witness ==
    /\ ret = Ret("spawn", "AlreadyRunning", <<>>)
    /\ ChildAlive
    /\ nspawnok = 1
    /\ pc = "idle"

\* C2: a send of a command that ends with a newline fails with ValueError
\* and writes nothing to the child (and chooses no token).
C2_NewlineRejected ==
    [][\A c \in Cmds, t \in Tokens :
          (send(c, t) /\ c[Len(c)] = NL) =>
             /\ ret' = Ret("send", "ValueError", <<>>)
             /\ UNCHANGED <<wire, cnt, issued, gdb, alive, out>>]_vars

C2_Witness ==
    /\ ret.op = "send"
    /\ ret.outcome = "ValueError"
    /\ nsend = 1
    /\ ChildAlive
    /\ booted

\* C3: a send of a command that does not end with a newline, to a
\* controller whose child runs, returns a token and appends exactly the one
\* message <token><command>\n to what is written to the child; the token is
\* the caller's, or the counter's, or empty when the counter is disabled and
\* the caller gave none; the send reads nothing of the child's output.
C3_SendWritesTokenCmdNL ==
    [][\A c \in Cmds, t \in Tokens :
          (send(c, t) /\ c[Len(c)] # NL /\ ChildAlive) =>
             /\ ret'.outcome = "ok"
             /\ wire' = Append(wire, Data(ret'.value \o c \o <<NL>>))
             /\ out' = out
             /\ (t = None /\ token_start = None) => ret'.value = <<>>
             /\ (t = None /\ token_start # None) => ret'.value = Str(cnt[1])
             /\ t # None => ret'.value = Str(t[1])]_vars

C3_Witness ==
    /\ ret.op = "send"
    /\ ret.outcome = "ok"
    /\ ret.value # <<>>
    /\ ChildAlive
    /\ wire # <<>>
    /\ wire[Len(wire)] = Data(ret.value \o CmdListFeatures \o <<NL>>)

\* C4: the tokens the controller chose are the decimal strings of
\* token_start, token_start + 1, ... in the order of the sends (the counter
\* grows by one with each), so they are pairwise distinct, across spawn,
\* send, recv and shutdown and across a shutdown followed by a spawn; with
\* the counter disabled no token is chosen.
C4_TokensDistinct ==
    /\ token_start = None => (cnt = None /\ issued = <<>>)
    /\ token_start # None =>
          /\ cnt = Some(token_start[1] + Len(issued))
          /\ \A i \in 1..Len(issued) : issued[i] = Str(token_start[1] + i - 1)
    /\ \A i, j \in 1..Len(issued) : i # j => issued[i] # issued[j]

C4_Witness ==
    /\ Len(issued) >= 3
    /\ nproc = 2
    /\ nclosed = 1
    /\ nspawnok = 2
\* The case of C5: the controller was built with token_start=87362, one
\* spawn started a child and returned, and the user's first call of send,
\* send("-list-features") with no token given, has just returned (its
\* message is the last thing written to the child).
FirstUserSend ==
    /\ token_start = Some(DefaultTokenStart)
    /\ nproc = 1
    /\ nspawnok = 1
    /\ nclosed = 0
    /\ nsend = 1
    /\ Len(issued) = 2
    /\ pc = "idle"
    /\ ret.op = "send"
    /\ ret.outcome = "ok"
    /\ wire # <<>>
    /\ wire[Len(wire)] = Data(ret.value \o CmdListFeatures \o <<NL>>)

\* The Result of that -list-features has just been received.
FirstUserResult ==
    /\ token_start = Some(DefaultTokenStart)
    /\ nproc = 1
    /\ nspawnok = 1
    /\ nsend = 1
    /\ Len(issued) = 2
    /\ ret.op = "recv"
    /\ ret.outcome = "ok"
    /\ ret.value # None
    /\ ret.value[1].type = "result"
    /\ ret.value[1].payload = Payload(CmdListFeatures)

\* C5 as claimed: the user's first send on a spawned controller built with
\* token_start=87362 returns "87362".
C5_FirstSendReturnsTokenStart ==
    FirstUserSend => ret.value = Str(DefaultTokenStart)

\* C5 as amended: that send returns "87363", the token after the one spawn
\* used for its own 'set confirm off', and the Result received for the
\* command carries "87363".
C5_FirstSendReturnsNextToken ==
    /\ FirstUserSend => ret.value = Str(DefaultTokenStart + 1)
    /\ FirstUserResult => ret.value[1].token = Str(DefaultTokenStart + 1)

C5_Witness ==
    /\ FirstUserResult
    /\ ret.value[1].token = <<"8", "7", "3", "6", "3">>

\* C6 as claimed: once a shutdown has force-closed the child, the slot is
\* never occupied again.
C6_TerminatedIrreversible == nclosed > 0 => gdb = None

\* C6 as amended: the slot goes from absent to occupied only by spawn, which
\* puts a new live child in it, and from occupied to absent only by the last
\* step of shutdown, which always empties it; a child in the slot is never
\* replaced by another.  (Terminated is not final: C6_Witness is a spawn
\* that returned normally after a completed shutdown.)
C6_Lifecycle ==
    [][/\ (gdb = None /\ gdb' # None) =>
             (spawn /\ gdb'[1] \in alive' /\ gdb'[1] \notin 1..nproc)
       /\ (gdb # None /\ gdb' = None) =>
             (sd_close /\ ret' = Ret("shutdown", "ok", <<>>))
       /\ (gdb # None /\ gdb' # None) => gdb' = gdb
       /\ sd_close => (gdb' = None /\ alive' = {})]_vars

C6_Witness ==
    /\ nclosed = 1
    /\ nspawnok = 2
    /\ ret = Ret("spawn", "ok", <<>>)
    /\ pc = "idle"
    /\ ChildAlive

\* C7: shutdown never raises, whatever the state it is called in, and a
\* shutdown called right after a shutdown writes nothing and changes neither
\* the slot nor the child.
C7_ShutdownNeverRaises ==
    [][/\ ret'.op = "shutdown" => ret'.outcome = "ok"
       /\ (shutdown /\ ret.op = "shutdown") =>
             UNCHANGED <<wire, out, gdb, alive>>]_vars

\* C8: when a shutdown of a controller that was spawned has ended, the
\* child is not alive and the slot is absent.
C8_ShutdownReleasesChild ==
    (pc = "idle" /\ ret.op = "shutdown" /\ nproc > 0) =>
        (gdb = None /\ alive = {})

\* C9: the steps of a shutdown are taken in the order interrupt, sleep,
\* write of -gdb-exit, flush, EOF, drain, force-close, each at most once: at
\* every step all the steps before it were done, and a shutdown of a child
\* that returns normally has done them all.
ShutdownOrder == <<"intr", "sleep", "write", "flush", "eof", "drain", "close">>
C9_ShutdownOrder ==
    /\ Len(steps) <= Len(ShutdownOrder)
    /\ steps = SubSeq(ShutdownOrder, 1, Len(steps))
    /\ pc = "sd_sleep" => Len(steps) = 1
    /\ pc = "sd_write" => Len(steps) = 2
    /\ pc = "sd_eof" => Len(steps) = 4
    /\ pc = "sd_drain" => Len(steps) \in {5, 6}
    /\ pc = "sd_close" => Len(steps) = 6
    /\ (pc = "idle" /\ ret.op = "shutdown" /\ ret.outcome = "ok" /\ steps # <<>>)
          => steps = ShutdownOrder

C9_Witness ==
    /\ pc = "idle"
    /\ ret.op = "shutdown"
    /\ steps = ShutdownOrder
    /\ nclosed = 1
    /\ gdb = None

\* C10: the drain loop of shutdown always ends, so that the force-close is
\* reached, whatever the child does.
C10_DrainEnds == (pc = "sd_drain") ~> (pc = "sd_close")

\* C11: a recv on a controller with a child never raises; when no line is
\* unread (the timeout elapsed, or the child is gone) it returns None and
\* leaves what is unread as it was; otherwise it returns the record of the
\* oldest unread line and consumes that line only.  So the records returned
\* by any sequence of recv calls are the emitted lines, in order, each once.
C11_RecvInOrder ==
    [][\A t \in RecvTimeouts :
          (recv(t) /\ gdb # None) =>
             /\ ret'.outcome = "ok"
             /\ IF out = <<>>
                THEN ret'.value = None /\ out' = out
                ELSE /\ ret'.value = Some(ParseLine(Head(out) \o <<NL>>))
                     /\ out' = Tail(out)]_vars

\* A recv timed out on a live child, and a line has arrived since.
C11_Witness ==
    /\ ret = Ret("recv", "ok", None)
    /\ ChildAlive
    /\ timeout # None
    /\ Len(out) = 2
    /\ out[2] = PromptText

\* The turn of the loop of recv_all that is taken reads the prompt, or is
\* given None by recv because the child is gone (EOF).
ReadsPrompt == out # <<>> /\ Head(out) = PromptText
ReadsEOF == out = <<>> /\ ~ChildAlive

\* The call in flight ends with this turn and gives the batch b: recv_all
\* returns it, execute stores it.
Gives(b) ==
    /\ pc' = "idle"
    /\ IF call.op = "execute"
       THEN last' = Some(b)
       ELSE last' = last /\ ret' = Ret("recv_all", "ok", Some(b))

\* C12 as claimed: with an infinite effective timeout recv_all ends
\* precisely on the turn that reads the prompt.
C12_EndsPreciselyOnPrompt ==
    [][(ra_recv /\ gdb # None /\ Infinite(call.t)) =>
          ((pc' = "idle") <=> ReadsPrompt)]_vars

\* C12 as amended: with an infinite effective timeout recv_all ends
\* precisely on the turn that reads the prompt or is given None on EOF; every
\* other turn appends the record read; the batch given is what was collected
\* before that turn, in order, and holds no prompt (and no None).
C12_EndsOnPromptOrEOF ==
    [][(ra_recv /\ gdb # None /\ Infinite(call.t)) =>
          /\ (pc' = "idle") <=> (ReadsPrompt \/ ReadsEOF)
          /\ pc' = "ra_recv" =>
                /\ tmp' = Append(tmp, ParseLine(Head(out) \o <<NL>>))
                /\ out' = Tail(out)
          /\ pc' = "idle" =>
                /\ Gives(tmp)
                /\ \A i \in 1..Len(tmp) : tmp[i].type \in {"result", "async", "stream"}]_vars

\* recv_all(None) has collected a record and is about to end: the child is
\* gone and nothing is unread, so recv gives None.
C12_Witness ==
    /\ pc = "ra_recv"
    /\ call.op = "recv_all"
    /\ call.t = None
    /\ tmp # <<>>
    /\ ReadsEOF

\* At most one Result, and as the last element.
OneResultLast(b) == \A i \in 1..Len(b) : b[i].type = "result" => i = Len(b)

\* C13 as claimed: every batch recv_all returned and every batch execute
\* stored holds at most one Result, as its last element.
C13_OneResultLast ==
    /\ (ret.op = "recv_all" /\ ret.outcome = "ok") => OneResultLast(ret.value[1])
    /\ last # None => OneResultLast(last[1])

\* C13 as amended: that holds of the batches of the calls whose effective
\* timeout is infinite.
C13_OneResultLastInfinite ==
    [][(ra_recv /\ gdb # None /\ Infinite(call.t) /\ pc' = "idle") =>
          /\ call.op = "execute" => OneResultLast(last'[1])
          /\ call.op = "recv_all" =>
                (ret'.outcome = "ok" /\ OneResultLast(ret'.value[1]))]_vars

\* A call with an infinite effective timeout has collected a notification
\* and a Result and is about to end on the prompt.
C13_Witness ==
    /\ pc = "ra_recv"
    /\ Infinite(call.t)
    /\ Len(tmp) = 2
    /\ tmp[1].type = "async"
    /\ tmp[2].type = "result"
    /\ ReadsPrompt

\* C14: with a finite effective timeout recv_all ends precisely on the turn
\* in which recv gives None (nothing unread: the timeout elapsed or the child
\* is gone); a turn that reads the prompt drops it and the loop goes on, so
\* the batch may span several episodes; any other turn appends the record.
C14_FiniteIgnoresPrompt ==
    [][(ra_recv /\ gdb # None /\ ~Infinite(call.t)) =>
          /\ (pc' = "idle") <=> out = <<>>
          /\ pc' = "idle" => Gives(tmp)
          /\ ReadsPrompt => (pc' = "ra_recv" /\ tmp' = tmp /\ out' = Tail(out))
          /\ (out # <<>> /\ ~ReadsPrompt) =>
                (tmp' = Append(tmp, ParseLine(Head(out) \o <<NL>>)) /\ out' = Tail(out))]_vars

\* recv_all returned a batch with the Results of two episodes.
C14_Witness ==
    /\ ret.op = "recv_all"
    /\ ret.outcome = "ok"
    /\ Len(ret.value[1]) = 2
    /\ ret.value[1][1].type = "result"
    /\ ret.value[1][2].type = "result"

\* b is what gdb emits for the command c sent with token tok, up to its
\* prompt: notifications, then the Result of c.
EpisodeOf(b, c, tok) ==
    /\ b # <<>>
    /\ b[Len(b)].type = "result"
    /\ b[Len(b)].token = tok
    /\ b[Len(b)].class \in {"done", "error"}
    /\ b[Len(b)].payload = Payload(c)
    /\ \A i \in 1..(Len(b) - 1) : b[i].type = "async"

\* C15 as claimed: an execute(c, timeout) with an infinite effective timeout
\* that started in a quiescent session stores the records of c's episode and
\* leaves the session quiescent.
C15_ExecuteOwnEpisode ==
    [][(ra_recv /\ call.op = "execute" /\ call.q /\ Infinite(call.t) /\ pc' = "idle") =>
          /\ last' # None
          /\ EpisodeOf(last'[1], call.cmd, issued[Len(issued)])
          /\ out' = <<>>
          /\ wire' = <<>>]_vars

\* C15 as amended: if moreover c is one line and the call ends on a prompt
\* (the child answered), it stores the records of c's episode, and nothing
\* written is unanswered and nothing unread is a Result or a prompt (only
\* notifications the child emitted after the prompt may be unread).
OneLine(c) == \A i \in 1..Len(c) : c[i] # NL
C15_ExecuteOwnEpisodeOneLine ==
    [][(ra_recv /\ call.op = "execute" /\ call.q /\ Infinite(call.t)
          /\ OneLine(call.cmd) /\ ReadsPrompt) =>
          /\ pc' = "idle"
          /\ last' # None
          /\ EpisodeOf(last'[1], call.cmd, issued[Len(issued)])
          /\ wire' = <<>>
          /\ \A i \in 1..Len(out') : out'[i] = AsyncText]_vars

\* Such an execute is about to end: it has collected a notification and the
\* Result of -list-features.
C15_Witness ==
    /\ pc = "ra_recv"
    /\ call.op = "execute"
    /\ call.q
    /\ call.t = None
    /\ call.cmd = CmdListFeatures
    /\ Len(tmp) = 2
    /\ tmp[2].type = "result"
    /\ ReadsPrompt

\* C16: execute(c, t, r) writes what send(c) writes and, if the send raised
\* nothing, starts the loop of recv_all(t); the call ends as recv_all ends
\* (C12, C14: the turns do not depend on the operation), its batch replaces
\* self.last and is returned only if r; a recv_all leaves self.last alone and
\* returns its batch.
C16_ExecuteIsSendRecvAll ==
    [][/\ \A c \in ExecCmds, t \in RecvTimeouts, r \in BOOLEAN :
             (execute(c, t, FALSE, r) /\ gdb # None /\ ~hup) =>
                /\ wire' = Append(wire, Data(Str(cnt[1]) \o c \o <<NL>>))
                /\ cnt' = Some(cnt[1] + 1)
                /\ pc' = "ra_recv"
                /\ tmp' = <<>>
                /\ call'.t = t
                /\ last' = last
       /\ \A c \in ExecCmds, t \in RecvTimeouts, r \in BOOLEAN :
             (execute(c, t, FALSE, r) /\ (gdb = None \/ hup)) =>
                /\ pc' = "idle"
                /\ ret'.outcome \in {"AttributeError", "OSError"}
                /\ last' = last
       /\ \A t \in RecvTimeouts :
             recv_all(t, FALSE) =>
                (pc' = "ra_recv" /\ tmp' = <<>> /\ call'.t = t /\ wire' = wire
                 /\ cnt' = cnt /\ last' = last)
       /\ (ra_recv /\ gdb # None /\ pc' = "idle") =>
             IF call.op = "execute"
             THEN /\ last' = Some(tmp)
                  /\ ret' = Ret("execute", "ok", IF call.r THEN Some(tmp) ELSE None)
             ELSE /\ last' = last
                  /\ ret' = Ret("recv_all", "ok", Some(tmp))
       /\ (ra_recv /\ pc' = "ra_recv") => last' = last]_vars

\* An execute with ret false has returned nothing; the batch it collected is
\* in self.last.
C16_Witness ==
    /\ ret = Ret("execute", "ok", None)
    /\ last # None
    /\ last[1] # <<>>
    /\ pc = "idle"

\* q1 is what is left of q once everything up to and including its first
\* prompt is consumed.
AfterFirstPrompt(q, q1) ==
    \E i \in 1..Len(q) :
        /\ q[i] = PromptText
        /\ \A j \in 1..(i - 1) : q[j] # PromptText
        /\ q1 = SubSeq(q, i + 1, Len(q))

C20_ExplicitTokenKeepsCounter ==
    [][\A c \in Cmds, t \in Tokens :
          (send(c, t) /\ t # None) =>
             /\ cnt' = cnt
             /\ issued' = issued
             /\ (c[Len(c)] # NL /\ ChildAlive) =>
                   /\ ret' = Ret("send", "ok", Str(t[1]))
                   /\ wire' = Append(wire, Data(Str(t[1]) \o c \o <<NL>>))]_vars

\* send("-list-features", token=7) has returned "7" after a spawn that used
\* the token 87362: the counter stands at 87363.
C20_Witness ==
    /\ ret = Ret("send", "ok", <<"7">>)
    /\ cnt = Some(DefaultTokenStart + 1)
    /\ issued = <<Str(DefaultTokenStart)>>
    /\ wire # <<>>
    /\ wire[Len(wire)] = Data(<<"7">> \o CmdListFeatures \o <<NL>>)
-----------------------------------------------------------------------------
\* C18: dynamic binding assigns one callable per surviving candidate, under a
\* name of its own: no two setattr calls of the binder use the same name, and
\* no bound name is an attribute the controller had before binding (public
\* or internal) or a keyword.
C18_BoundNamesDistinct ==
    /\ \A i, j \in 1..Len(bound) : i # j => bound[i][1] # bound[j][1]
    /\ \A i \in 1..Len(bound) :
          bound[i][1] \notin InitialAttrs /\ ~iskeyword(bound[i][1])

\* C19: binding is best-effort and non-fatal.  When an alias probe has
\* returned, the candidate goes on to be bound only if the probe's batch holds
\* a Result of class done; a candidate whose probe gave anything else (an
\* error, no Result, no record at all) or whose name is no identifier is
\* skipped and the binder goes on with the next candidate; no setattr happens
\* but after such a probe, and the binder never ends with an exception raised
\* by the handling of a candidate (IndexError, TypeError).
C19_BindingNeverRaises ==
    [][/\ (pc = "bind" /\ bind.stage = "alias") =>
             LET b == IF ret.value = None THEN <<>> ELSE ret.value[1]
                 done == \E i \in 1..Len(b) : b[i].type = "result" /\ b[i].class = "done"
             IN  /\ bind'.stage = "help" => done
                 /\ (~done \/ ~isidentifier(Normalize(bind.name))) =>
                       /\ pc' = "bind"
                       /\ bind'.stage = "next"
                       /\ bind'.cands = bind.cands
       /\ bound' # bound => (pc = "bind" /\ bind.stage = "help")
       /\ ret'.op = "extend" => ret'.outcome \notin {"IndexError", "TypeError"}]_vars

-----------------------------------------------------------------------------
\* C21: a spawn that fails after it started the child (EOF or timeout while
\* it waits for a prompt) leaves the child in the slot; with a child in the
\* slot a spawn fails with AlreadyRunning and starts nothing; only the end of
\* a shutdown empties the slot; and the shutdown called after the failed
\* spawn returns normally with the slot empty and that child dead.
SpawnFailures == {"UnexpectedEOF", "TIMEOUT"}
C21_FailedSpawnKeepsSlot ==
    [][/\ (pc \in {"spawn_expect1", "spawn_expect2"} /\ ret'.op = "spawn"
           /\ ret'.outcome \in SpawnFailures) => (gdb # None /\ gdb' = gdb)
       /\ (spawn /\ gdb # None) =>
             (ret'.outcome = "AlreadyRunning" /\ nproc' = nproc /\ gdb' = gdb)
       /\ (gdb # None /\ gdb' # gdb) => pc = "sd_close"
       /\ (ret.op = "spawn" /\ ret.outcome \in SpawnFailures /\ ret'.op = "shutdown") =>
             (ret'.outcome = "ok" /\ gdb' = None /\ gdb[1] \notin alive')]_vars

-----------------------------------------------------------------------------
\* C22: under any interleaving of the coroutines of several tasks, every
\* child process that is alive is the one in the child slot (so there are
\* never two live children, and no live child the controller lost).
C22_LiveChildIsInSlot == \A p \in alive : gdb = Some(p)

\* A shutdown is suspended at its sleep, and the slot holds a live child that
\* was spawned since that shutdown was called.
C22_Witness ==
    /\ \E i \in 1..Len(parked) :
          parked[i].pos = "sd_sleep" /\ parked[i].child # gdb
    /\ ChildAlive

-----------------------------------------------------------------------------
\* C23: when the line an execute reads while it drains is one the MI codec
\* rejects, the call ends with the codec's error and returns nothing, last
\* and what was printed stay as they were before the call (the records read
\* so far are dropped), and the rejected line is consumed, that line only; a
\* recv that reads such a line raises and consumes it as well.
Rejected(l) == ParseLine(l \o <<NL>>).type = "invalid"
-----------------------------------------------------------------------------
\* C24: a send of a command that does not end with a newline, on a
\* controller with no child in the slot, raises and writes nothing; if the
\* token is left to the controller and the counter is enabled, the counter
\* has advanced by one all the same and the token it stood at, which differs
\* from every token chosen before, is used up; otherwise the counter stays.
C24_FailedSendTakesToken ==
    [][\A c \in Cmds, t \in Tokens :
          (send(c, t) /\ gdb = None /\ c[Len(c)] # NL) =>
             /\ ret' = Ret("send", "AttributeError", <<>>)
             /\ wire' = wire
             /\ IF t = None /\ cnt # None
                THEN /\ cnt' = Some(cnt[1] + 1)
                     /\ issued' = Append(issued, Str(cnt[1]))
                     /\ \A i \in 1..Len(issued) : issued[i] # Str(cnt[1])
                ELSE /\ cnt' = cnt
                     /\ issued' = issued]_vars

\* After a spawn (whose send took the token 87362) and a shutdown, a send
\* has failed: nothing is written, and the counter stands at 87364.
C24_Witness ==
    /\ ret = Ret("send", "AttributeError", <<>>)
    /\ gdb = None
    /\ nclosed = 1
    /\ wire = <<>>
    /\ cnt = Some(DefaultTokenStart + 2)
    /\ issued = <<Str(DefaultTokenStart), Str(DefaultTokenStart + 1)>>

-----------------------------------------------------------------------------
-----------------------------------------------------------------------------
\* C26: in the first variant, every call of shutdown reaches the final
\* force-close of the child: it ends normally, its last step is the close,
\* and the child is dead after it.
C26_ShutdownReachesClose ==
    [][GDB_shutdown
       => /\ ret'.outcome = "ok"
          /\ steps' # <<>> /\ steps'[Len(steps')] = "close"
          /\ ~ChildAlive']_vars

====
